---- MODULE Spec2Model ----
(***************************************************************************)
(* Model of the Voxtral transcription server (VoxtralServer/server.py):    *)
(* the module globals model / processor / device, initialize_model() run   *)
(* by the startup event, and the handlers /, /health, /transcribe and      *)
(* /transcribe-json together with the temporary files they stage.          *)
(***************************************************************************)
EXTENDS Integers, Sequences, FiniteSets, TLC

(* ---------------------------- bounds ----------------------------------- *)
\* number of clients that may have a /transcribe request in flight
NumClients == 2
\* number of distinct temporary file names the file system can hand out
MaxTmp == 1
\* longest decoded string returned by batch_decode
MaxTextLen == 1
\* largest wall-clock difference time.time() - start_time
MaxElapsed == 0

Clients == 1..NumClients
TmpNames == 1..MaxTmp
Elapsed == 0..MaxElapsed

(* ---------------------------- values ----------------------------------- *)
None == "None"
NoParam == "<omitted>"
Languages == {"en", "fr"}
RequestLanguages == Languages \cup {NoParam}
Chars == {" ", "a"}

RECURSIVE StringsUpTo(_)
StringsUpTo(n) ==
    IF n = 0 THEN {<<>>}
    ELSE LET shorter == StringsUpTo(n - 1)
         IN  shorter \cup {Append(s, ch) : s \in shorter, ch \in Chars}

\* what processor.batch_decode may return: a list of zero or one strings
DecodedOutputs == {<<>>} \cup {<<s>> : s \in StringsUpTo(MaxTextLen)}

\* the steps of the request body that can raise, in program order
ExternalStages == <<"apply_transcription_request", "to", "generate", "batch_decode">>

\* str(e) of the exception raised at a stage
MessageOf(stage) ==
    CASE stage = "read" -> "read failed"
      [] stage = "NamedTemporaryFile" -> "No usable temporary file name found"
      [] stage = "write" -> "No space left on device"
      [] stage = "apply_transcription_request" -> "malformed audio"
      [] stage = "to" -> "invalid device"
      [] stage = "generate" -> "CUDA out of memory"
      [] stage = "batch_decode" -> "decode error"
      [] OTHER -> "error"

\* str(e) of the AttributeError raised by a call through a None global
NoneTypeMessage(stage) == <<"'NoneType' object has no attribute ", stage>>

VARIABLES model, processor, device,   \* the module globals
          initPc, initResult,         \* position and result of initialize_model()
          phase,                      \* "starting" until startup_event returns
          files,                      \* temporary files present on disk
          pc, req,                    \* per client: position and parameters of its request
          last                        \* the most recently completed response

vars == <<model, processor, device, initPc, initResult, phase, files, pc, req, last>>

NoRequest == [endpoint |-> "none", language |-> NoParam]
NoResponse ==
    [op |-> "none", language |-> NoParam, outcome |-> "none", tmp |-> 0,
     status |-> 0, body |-> [none |-> "none"]]

Init ==
    /\ model = None
    /\ processor = None
    /\ device = None
    /\ initPc = "cuda_check"
    /\ initResult = "pending"
    /\ phase = "starting"
    /\ files = {}
    /\ pc = [c \in Clients |-> "idle"]
    /\ req = [c \in Clients |-> NoRequest]
    /\ last = NoResponse

(* ------------------------ initialize_model ----------------------------- *)
\* if torch.cuda.is_available(): device = "cuda"; get_device_name / get_device_properties
\* may raise after the assignment.  else: device = "cpu".
CudaCheck ==
    /\ phase = "starting"
    /\ initPc = "cuda_check"
    /\ \E available \in BOOLEAN, queryOk \in BOOLEAN :
         IF available
         THEN /\ device' = "cuda"
              /\ IF queryOk
                 THEN initPc' = "load_processor" /\ UNCHANGED initResult
                 ELSE initPc' = "returned" /\ initResult' = "False"
         ELSE /\ device' = "cpu"
              /\ initPc' = "load_processor"
              /\ UNCHANGED initResult
    /\ UNCHANGED <<model, processor, phase, files, pc, req, last>>

\* a load that binds a local name and leaves the global untouched
LoadProcessorLocalOnly ==
    /\ phase = "starting"
    /\ initPc = "load_processor"
    /\ \E ok \in BOOLEAN :
         IF ok
         THEN initPc' = "load_model" /\ UNCHANGED initResult
         ELSE initPc' = "returned" /\ initResult' = "False"
    /\ UNCHANGED <<model, processor, device, phase, files, pc, req, last>>

\* processor = AutoProcessor.from_pretrained(repo_id)
LoadProcessor ==
    /\ phase = "starting"
    /\ initPc = "load_processor"
    /\ \E ok \in BOOLEAN :
         IF ok
         THEN /\ processor' = "AutoProcessor"
              /\ initPc' = "load_model"
              /\ UNCHANGED initResult
         ELSE /\ initPc' = "returned"
              /\ initResult' = "False"
              /\ UNCHANGED processor
    /\ UNCHANGED <<model, device, phase, files, pc, req, last>>

\* model = VoxtralForConditionalGeneration.from_pretrained(...); return True
LoadModel ==
    /\ phase = "starting"
    /\ initPc = "load_model"
    /\ \E ok \in BOOLEAN :
         IF ok
         THEN /\ model' = "VoxtralForConditionalGeneration"
              /\ initResult' = "True"
         ELSE /\ initResult' = "False"
              /\ UNCHANGED model
    /\ initPc' = "returned"
    /\ UNCHANGED <<processor, device, phase, files, pc, req, last>>

(* -------------------------- startup_event ------------------------------ *)
\* a startup that gives up when initialize_model() returned False
StartupExitOnFailure ==
    /\ phase = "starting"
    /\ initPc = "returned"
    /\ initResult = "True"
    /\ phase' = "serving"
    /\ UNCHANGED <<model, processor, device, initPc, initResult, files, pc, req, last>>

\* if not initialize_model(): log only ("Don't exit"); startup completes either way
startup_event ==
    /\ phase = "starting"
    /\ initPc = "returned"
    /\ phase' = "serving"
    /\ UNCHANGED <<model, processor, device, initPc, initResult, files, pc, req, last>>

(* ------------------------- pure helpers -------------------------------- *)
\* handlers declare no `global`, so they can only read model / processor / device
HandlersResetModel == model' = None /\ UNCHANGED <<processor, device>>

HandlersKeepGlobals == UNCHANGED <<model, processor, device>>

\* `language: str = "en"`: the default stands in for an omitted parameter
LanguageParamAlwaysDefault(raw) == "en"

LanguageParam(raw) == IF raw = NoParam THEN "en" ELSE raw

\* `if model is None or processor is None`
HandleAbsentProcessorOnly(m, p) == p = None

HandleAbsent(m, p) == m = None \/ p = None

\* str.strip(): drop leading and trailing whitespace
RECURSIVE LStrip(_)
LStrip(s) == IF s # <<>> /\ Head(s) = " " THEN LStrip(Tail(s)) ELSE s

RECURSIVE RStrip(_)
RStrip(s) ==
    IF s # <<>> /\ s[Len(s)] = " " THEN RStrip(SubSeq(s, 1, Len(s) - 1)) ELSE s

Strip(s) == RStrip(LStrip(s))

\* transcription = decoded_outputs[0].strip() if decoded_outputs else ""
Transcription(decoded) == IF decoded # <<>> THEN Strip(decoded[1]) ELSE <<>>

HTTPException(status_code, detail) ==
    [status |-> status_code, body |-> [detail |-> detail]]

TranscriptionResponse(text, language, processing_time) ==
    [status |-> 200,
     body |-> [text |-> text, language |-> language, processing_time |-> processing_time]]

NotLoaded == HTTPException(503, <<"Model not loaded. Please check server logs.">>)

\* a handler that drops the exception text
TranscriptionFailedNoMessage(message) == HTTPException(500, <<"Transcription failed">>)

\* HTTPException(status_code=500, detail=f"Transcription failed: {str(e)}")
TranscriptionFailed(message) == HTTPException(500, <<"Transcription failed: ">> \o message)

\* a wrapper that reshapes every failure of transcribe_audio into {"error": ...}, 500
transcribe_audio_json_reshape(result) ==
    IF result.status = 200
    THEN [status |-> 200, body |-> [text |-> result.body.text]]
    ELSE [status |-> 500, body |-> [error |-> result.body.detail]]

\* result = await transcribe_audio(...); {"text": result.text}; except HTTPException: raise
transcribe_audio_json(result) ==
    IF result.status = 200
    THEN [status |-> 200, body |-> [text |-> result.body.text]]
    ELSE result

Respond(endpoint, result) ==
    IF endpoint = "/transcribe-json" THEN transcribe_audio_json(result) ELSE result

Completed(endpoint, raw, outcome, tmp, result) ==
    LET r == Respond(endpoint, result)
    IN  [op |-> endpoint, language |-> raw, outcome |-> outcome, tmp |-> tmp,
         status |-> r.status, body |-> r.body]

\* finally: if os.path.exists(temp_file_path): os.unlink(temp_file_path)
Finally(fs, path) == IF path \in fs THEN fs \ {path} ELSE fs

(* ------------------------------ GET / ---------------------------------- *)
root ==
    /\ phase = "serving"
    /\ last' = [op |-> "/", language |-> NoParam, outcome |-> "ok", tmp |-> 0,
                status |-> 200, body |-> [text |-> <<"Voxtral Transcription Server v1.0.0">>]]
    /\ HandlersKeepGlobals
    /\ UNCHANGED <<initPc, initResult, phase, files, pc, req>>

(* --------------------------- GET /health ------------------------------- *)
\* a health report keyed on the processor instead of the model
HealthResponseByProcessor(m, p, d, gpu) ==
    [status |-> IF p # None THEN "healthy" ELSE "unhealthy",
     model_loaded |-> m # None,
     device |-> IF d # None THEN d ELSE "unknown",
     gpu_available |-> gpu]

HealthResponse(m, p, d, gpu) ==
    [status |-> IF m # None THEN "healthy" ELSE "unhealthy",
     model_loaded |-> m # None,
     device |-> IF d # None THEN d ELSE "unknown",
     gpu_available |-> gpu]

health_check ==
    /\ phase = "serving"
    /\ \E gpu \in BOOLEAN :
         last' = [op |-> "/health", language |-> NoParam, outcome |-> "ok", tmp |-> 0,
                  status |-> 200, body |-> HealthResponse(model, processor, device, gpu)]
    /\ HandlersKeepGlobals
    /\ UNCHANGED <<initPc, initResult, phase, files, pc, req>>

(* ------------------------- POST /transcribe ---------------------------- *)
Endpoints == {"/transcribe", "/transcribe-json"}

\* entry of transcribe_audio up to `await file.read()`, reached directly or through
\* transcribe_audio_json
TranscribeBegin(c) ==
    /\ phase = "serving"
    /\ pc[c] = "idle"
    /\ \E endpoint \in Endpoints, raw \in RequestLanguages :
         IF HandleAbsent(model, processor)
         THEN /\ last' = Completed(endpoint, raw, "not_loaded", 0, NotLoaded)
              /\ UNCHANGED <<pc, req>>
         ELSE /\ pc' = [pc EXCEPT ![c] = "reading"]
              /\ req' = [req EXCEPT ![c] = [endpoint |-> endpoint, language |-> raw]]
              /\ UNCHANGED last
    /\ HandlersKeepGlobals
    /\ UNCHANGED <<initPc, initResult, phase, files>>

\* the external stages a call through the current globals cannot get past
Blocked(stage) ==
    \/ processor = None /\ stage \in {"apply_transcription_request", "batch_decode"}
    \/ model = None /\ stage = "generate"

\* the external stages that run before `stage`
Before(stage) ==
    {ExternalStages[i] : i \in {j \in 1..Len(ExternalStages) :
        \E k \in (j + 1)..Len(ExternalStages) : ExternalStages[k] = stage}}

\* the rest of transcribe_audio, from the return of file.read() to the response
TranscribeFinish(c) ==
    /\ phase = "serving"
    /\ pc[c] = "reading"
    /\ LET endpoint == req[c].endpoint
           raw == req[c].language
           language == LanguageParam(raw)
       IN  \/ \* audio_data = await file.read() raises
              /\ last' = Completed(endpoint, raw, "read", 0,
                                   TranscriptionFailed(<<MessageOf("read")>>))
              /\ UNCHANGED files
           \/ \* tempfile.NamedTemporaryFile finds no usable name
              /\ files = TmpNames
              /\ last' = Completed(endpoint, raw, "NamedTemporaryFile", 0,
                                   TranscriptionFailed(<<MessageOf("NamedTemporaryFile")>>))
              /\ UNCHANGED files
           \/ \E path \in TmpNames \ files :
                LET staged == files \cup {path}
                IN  \/ \* temp_file.write(audio_data) raises: delete=False keeps the file
                       /\ last' = Completed(endpoint, raw, "write", path,
                                            TranscriptionFailed(<<MessageOf("write")>>))
                       /\ files' = staged
                    \/ \* an external stage raises inside the inner try
                       \E i \in 1..Len(ExternalStages) :
                         LET stage == ExternalStages[i]
                         IN  /\ \A earlier \in Before(stage) : ~Blocked(earlier)
                             /\ last' = Completed(endpoint, raw, stage, path,
                                   TranscriptionFailed(
                                       IF Blocked(stage) THEN NoneTypeMessage(stage)
                                       ELSE <<MessageOf(stage)>>))
                             /\ files' = Finally(staged, path)
                    \/ \* every stage returns
                       /\ \A i \in 1..Len(ExternalStages) : ~Blocked(ExternalStages[i])
                       /\ \E decoded \in DecodedOutputs, processing_time \in Elapsed :
                            last' = Completed(endpoint, raw, "ok", path,
                                      TranscriptionResponse(Transcription(decoded),
                                                            language, processing_time))
                       /\ files' = Finally(staged, path)
    /\ pc' = [pc EXCEPT ![c] = "idle"]
    /\ req' = [req EXCEPT ![c] = NoRequest]
    /\ HandlersKeepGlobals
    /\ UNCHANGED <<initPc, initResult, phase>>

Next ==
    \/ CudaCheck
    \/ LoadProcessor
    \/ LoadModel
    \/ startup_event
    \/ root
    \/ health_check
    \/ \E c \in Clients : TranscribeBegin(c)
    \/ \E c \in Clients : TranscribeFinish(c)

Spec == Init /\ [][Next]_vars

\* the startup event runs to completion before the application serves requests
FairSpec ==
    Spec /\ WF_vars(CudaCheck) /\ WF_vars(LoadProcessor) /\ WF_vars(LoadModel)
         /\ WF_vars(startup_event)

TypeOK ==
    /\ model \in {None, "VoxtralForConditionalGeneration"}
    /\ processor \in {None, "AutoProcessor"}
    /\ device \in {None, "cuda", "cpu"}
    /\ initPc \in {"cuda_check", "load_processor", "load_model", "returned"}
    /\ initResult \in {"pending", "True", "False"}
    /\ phase \in {"starting", "serving"}
    /\ files \subseteq TmpNames
    /\ pc \in [Clients -> {"idle", "reading"}]

(* ------------------------------ claims --------------------------------- *)
Stages == {ExternalStages[i] : i \in 1..Len(ExternalStages)}
IsTranscribe == last.op \in {"/transcribe", "/transcribe-json"}

\* C1: whenever model is None or processor is None, a POST to /transcribe or to
\* /transcribe-json ends with status 503 (never another status) and no request gets
\* past the guard into the request body.
C1_Unavailable503 ==
    (model = None \/ processor = None) =>
        /\ \A c \in Clients : pc[c] = "idle"
        /\ IsTranscribe => last.status = 503 /\ last.outcome = "not_loaded"

C1_Witness ==
    /\ last.op = "/transcribe-json"
    /\ last.status = 503
    /\ processor # None
    /\ model = None

\* C2: /transcribe-json answers 200 with a body of exactly {"text": ...} on success and
\* a non-200 status with a body of exactly {"error": ...} on every failure.
C2_JsonShape ==
    last.op = "/transcribe-json" =>
        \/ last.status = 200 /\ DOMAIN last.body = {"text"}
        \/ last.status # 200 /\ DOMAIN last.body = {"error"}

\* C3: once a /transcribe call has completed, the temporary file it created no longer
\* exists, whichever way the call ended.
C3_NoTempFileLeft ==
    (IsTranscribe /\ last.tmp # 0) => last.tmp \notin files

\* C4: a failure raised by an external stage after the temp file is staged makes
\* /transcribe answer 500 with a detail that carries the underlying message, and the
\* failing request leaves model, processor, device and the file system as they were.
C4_FailureState ==
    (last.op = "/transcribe" /\ last.outcome \in Stages) =>
        /\ last.status = 500
        /\ DOMAIN last.body = {"detail"}
        /\ last.body.detail = <<"Transcription failed: ", MessageOf(last.outcome)>>

C4_FailureStep ==
    \A c \in Clients :
        (pc[c] = "reading" /\ pc'[c] = "idle" /\ last'.outcome \in Stages) =>
            UNCHANGED <<model, processor, device, files, phase, initPc, initResult>>

C4_ExternalFailure500 == [](C4_FailureState) /\ [][C4_FailureStep]_vars

C4_Witness ==
    /\ last.op = "/transcribe"
    /\ last.outcome = "generate"
    /\ last.status = 500
    /\ last.tmp # 0

\* C5: /health reports model_loaded = (model is not None) and status "healthy" exactly
\* when model_loaded is true: unhealthy while no model is loaded, healthy after a
\* successful initialize_model(); and the call changes no state.
C5_HealthState ==
    last.op = "/health" =>
        /\ last.status = 200
        /\ last.body.model_loaded = (model # None)
        /\ (last.body.status = "healthy") = last.body.model_loaded
        /\ last.body.status \in {"healthy", "unhealthy"}
        /\ initResult = "True" => last.body.status = "healthy"

C5_HealthStep ==
    (last' # last /\ last'.op = "/health") =>
        UNCHANGED <<model, processor, device, files, pc, req, phase, initPc, initResult>>

C5_HealthAgrees == [](C5_HealthState) /\ [][C5_HealthStep]_vars

C5_Witness ==
    /\ last.op = "/health"
    /\ initResult = "True"
    /\ last.body.status = "healthy"
    /\ last.body.model_loaded

C7_FailedState ==
    initResult = "False" =>
        /\ model = None
        /\ last.op = "/health" => last.body.status = "unhealthy"
        /\ IsTranscribe => last.status = 503

C7_InitFailureNotFatal ==
    [](C7_FailedState) /\ (initResult = "False" ~> phase = "serving")

C7_Witness ==
    /\ initResult = "False"
    /\ phase = "serving"
    /\ device = "cuda"
    /\ last.op = "/health"
    /\ last.body.status = "unhealthy"

\* C8: a /transcribe call gets past the guard only with both model and processor set;
\* every answer is 200, 500 or 503, and 503 is the answer exactly when the guard fired.
C8_NoPartialHandle ==
    /\ \A c \in Clients : pc[c] = "reading" => (model # None /\ processor # None)
    /\ IsTranscribe =>
        /\ last.status \in {200, 500, 503}
        /\ last.outcome # "not_loaded" => (model # None /\ processor # None)
        /\ (last.status = 503) = (last.outcome = "not_loaded")

C8_Witness ==
    /\ last.op = "/transcribe"
    /\ last.outcome = "not_loaded"
    /\ processor # None
    /\ model = None

\* C9: model, processor and device change only while initialize_model() runs during
\* startup; requests are handled only after startup completed, and no handler step
\* changes the three globals.
C9_Step ==
    /\ <<model, processor, device>>' # <<model, processor, device>> =>
           (phase = "starting" /\ initPc # "returned" /\ phase' = "starting")
    /\ phase = "serving" => phase' = "serving"

C9_RequestsAfterStartup ==
    (last.op # "none" \/ \E c \in Clients : pc[c] # "idle") =>
        (phase = "serving" /\ initPc = "returned")

C9_HandleWrittenOnlyAtStartup == [](C9_RequestsAfterStartup) /\ [][C9_Step]_vars

C9_Witness ==
    /\ \A c \in Clients : pc[c] = "reading"
    /\ IsTranscribe
    /\ last.status = 500

\* C10: model non-None implies processor non-None in every state, so a healthy report
\* and a 503 from /transcribe never occur in the same state.
C10_ModelImpliesProcessor ==
    /\ model # None => processor # None
    /\ (last.op = "/health" /\ last.body.status = "healthy") =>
           (model # None /\ processor # None)
    /\ (IsTranscribe /\ model # None) => last.status # 503

C10_Witness ==
    /\ last.op = "/health"
    /\ last.body.status = "healthy"
    /\ \E c \in Clients : pc[c] = "reading"
====
